---- MODULE Spec2Model ----
(***************************************************************************)
(* href-checker: checkLinks, an async generator that loads a seed page,    *)
(* extracts its same-page, same-site and off-site links, validates them    *)
(* with one shared puppeteer browser and yields one entry per unique link. *)
(*                                                                         *)
(* The model has three kinds of process: the caller that consumes the      *)
(* generator (next / return), the generator body itself, and one           *)
(* isLinkValid task per unique off-page link.  puppeteer is the            *)
(* environment: every call into it resolves or rejects nondeterministically.*)
(***************************************************************************)
EXTENDS Integers, Sequences, FiniteSets, TLC

(***************************************************************************)
(* Bounds of the model.                                                    *)
(***************************************************************************)
\* longest list getSameSiteLinks returns
MaxRaw == 2
\* how many browser.newPage() / page.close() calls of link tasks may reject in a run
MaxFaults == 1

(***************************************************************************)
(* Strings are sequences of tokens; "#" and the characters of a fragment   *)
(* are single tokens, so Len is the JavaScript length of a hash.           *)
(***************************************************************************)
\* a.hash values of the seed page's fragment anchors ("" for href="#")
SamePageHashes == { << >>, <<"#", "a">>, <<"#", "b">> }
\* a.href values of the seed page's same-origin anchors
SameSiteHrefs == { <<"https://x/y">>, <<"https://x/z", "#", "a">> }
\* a.href values of the seed page's other-origin anchors
OffSiteHrefs == { <<"https://e/q", "#">> }
\* the lists getSamePageLinks may return
SamePageLists ==
    { << >>,
      << << >>, <<"#", "a">>, <<"#", "a">> >>,
      << <<"#", "b">> >>,
      << <<"#", "a">>, <<"#", "b">>, <<"#", "a">> >> }
\* the lists getExternalLinks may return
OffSiteLists ==
    { << >>,
      << <<"https://e/q", "#">>, <<"https://e/q", "#">> >> }
\* ids (and names) of the elements of the seed page
SeedPageIds == {"a"}
\* the id sets a linked page may have
LinkedPageIds == { {}, {"a"} }

\* the values of the --concurrency option that are tried (its default is 5)
ConcurrencyValues == {1}

\* what page.goto resolves to (a response that is ok, one that is not, null) or that it throws
NavResults == {"ok", "notok", "null", "throw"}

\* the values of puppeteer.waitUntil (--wait-until) that are tried: one of the
\* events, and a word that is none of them
WaitUntilValues == {"load", "soon"}

\* the events page.goto can wait for; with any other waitUntil it rejects
ValidWaitUntil(v) == v \in {"load", "domcontentloaded", "networkidle0", "networkidle2"}

\* what page.goto(url, options.puppeteer) may give under the given options
GotoResults(options) ==
    IF ValidWaitUntil(options.waitUntil) THEN NavResults ELSE {"throw"}

SeqsUpTo(S, n) == UNION { [1..k -> S] : k \in 0..n }

(***************************************************************************)
(* Pure functions of index.ts                                              *)
(***************************************************************************)
\* Map<T, number> as the sequence of its [key, value] pairs in insertion order
MapKeys(m) == [i \in 1..Len(m) |-> m[i].key]
MapHas(m, k) == \E i \in 1..Len(m) : m[i].key = k
MapGet(m, k) == m[CHOOSE i \in 1..Len(m) : m[i].key = k].value
\* a map whose set moves a key that is already there to the end
MapSetMoveToEnd(m, k, v) ==
    Append(SelectSeq(m, LAMBDA p : p.key # k), [key |-> k, value |-> v])

MapSet(m, k, v) ==
    IF MapHas(m, k)
    THEN [i \in 1..Len(m) |-> IF m[i].key = k THEN [key |-> k, value |-> v] ELSE m[i]]
    ELSE Append(m, [key |-> k, value |-> v])

RECURSIVE countFrom(_, _)
countFrom(counts, items) ==
    IF items = << >> THEN counts
    ELSE LET item == Head(items)
             c == IF MapHas(counts, item) THEN MapGet(counts, item) ELSE 0
         IN countFrom(MapSet(counts, item, c + 1), Tail(items))

\* a counter that forgets to look the item up: every occurrence gets its own key
countNoDedup(items) == [i \in 1..Len(items) |-> [key |-> items[i], value |-> 1]]

count(items) == countFrom(<< >>, items)

\* new URL(link).hash: from the first "#" on, and "" when nothing follows the "#"
UrlHash(link) ==
    IF \E i \in 1..Len(link) : link[i] = "#"
    THEN LET k == CHOOSE i \in 1..Len(link) :
                      link[i] = "#" /\ \A j \in 1..(i - 1) : link[j] # "#"
         IN IF k = Len(link) THEN << >> ELSE SubSeq(link, k, Len(link))
    ELSE << >>

\* hash.replace(/^#/, "")
StripHash(hash) == IF hash # << >> /\ Head(hash) = "#" THEN Tail(hash) ELSE hash

\* page.$eval(selector, el => !!el): resolves true when an element matches the
\* selector [id='..'], [name='..'], rejects when none does or when the selector
\* does not parse (an id holding a quote)
Eval(ids, id) ==
    IF \E i \in 1..Len(id) : id[i] = "'" THEN "rejected"
    ELSE IF Len(id) = 1 /\ id[1] \in ids THEN "true"
    ELSE "rejected"

\* isFragmentValid returns the $eval promise from inside its try block without
\* awaiting it, so its catch never sees the rejection: the caller does
isFragmentValid(hash, ids) == Eval(ids, StripHash(hash))

\* !response || !response.ok() on the seed page
SeedFailedOnlyNotOk(response) == response = "notok"

SeedNavigationFailed(response) == response = "null" \/ response = "notok"

\* !response || response.ok() on a linked page
PageExists(response) == response = "null" \/ response = "ok"

\* a check of the fragment that does not look at the hash
ShouldCheckFragmentAnyHash(fragments, pageExists, hash) == fragments /\ pageExists

\* a check of the fragment that does not look at options.fragments
ShouldCheckFragmentAlways(fragments, pageExists, hash) ==
    pageExists /\ hash # << >> /\ Len(hash) > 1

\* options.fragments && pageExists && url.hash && url.hash.length > 1
ShouldCheckFragment(fragments, pageExists, hash) ==
    fragments /\ pageExists /\ hash # << >> /\ Len(hash) > 1


(***************************************************************************)
(* State                                                                   *)
(***************************************************************************)
VARIABLES
    opts,         \* the Options checkLinks runs with
    pc,           \* where the checkLinks generator is
    cat,          \* the category whose loop the generator is in (0: none yet)
    idx,          \* the loop index i of the running category loop
    browser,      \* "none", "open", "closed"
    closeCount,   \* how many times browser.close() was called
    response,     \* what the seed page.goto gave ("pending" before)
    raw,          \* the raw lists $$eval returned, per category
    links,        \* getAllLinks' result: a Map per category
    tasks,        \* per off-page category, the isLinkValid calls of resultPromises
    emitted,      \* the entries yielded so far
    caller,       \* "idle", or the request it awaits: "next", "return"
    outcome,      \* how the caller's last request settled
    caughtError,  \* the caughtError of checkLinks
    faults,       \* newPage / close rejections of link tasks so far
    lateOps,      \* page operations link tasks started after browser.close()
    cliOpts,      \* the CommandLineOptions main is called with
    main,         \* where main of the command line is ("none": it does not run)
    result,       \* the entry the loop of main has in hand
    resultType,   \* its ResultType
    hasFailures,  \* the hasFailures of main
    seen,         \* the ResultTypes of the entries main has got so far
    thrown,       \* the message of the error main threw
    exitCode      \* "0", "1" once the process is over

\* the state of the command line
cliVars == <<cliOpts, main, result, resultType, hasFailures, seen, thrown, exitCode>>

\* the state of checkLinks apart from its options
genVars == <<pc, cat, idx, browser, closeCount, response, raw, links, tasks,
             emitted, caller, outcome, caughtError, faults, lateOps>>

vars == <<opts, genVars, cliVars>>

Categories == {"samePage", "sameSite", "offSite"}
OffPageCategories == {"sameSite", "offSite"}

\* the order of the three for-await loops, with two of them exchanged
CategoryOrderSwapped == <<"samePage", "offSite", "sameSite">>

\* the order of the three for-await loops of checkLinks
CategoryOrder == <<"samePage", "sameSite", "offSite">>

Category == CategoryOrder[cat]

Hrefs(c) ==
    CASE c = "samePage" -> SamePageHashes
      [] c = "sameSite" -> SameSiteHrefs
      [] c = "offSite"  -> OffSiteHrefs

NoLists == [c \in Categories |-> << >>]

Settled(t) == t.pc \in {"fulfilled", "rejected"}

\* no entry yet
NoEntry == [type |-> "none"]

\* the command line before main has done anything
CliStart ==
    /\ result = NoEntry
    /\ resultType = "none"
    /\ hasFailures = FALSE
    /\ seen = {}
    /\ thrown = "none"
    /\ exitCode = "none"

\* the options of the command line when nothing is given: "err" for the three
\* categories, "warn" for fragments
CliDefaults ==
    [samePage |-> "err", sameSite |-> "err", offSite |-> "err", fragments |-> "warn",
     concurrency |-> CHOOSE c \in ConcurrencyValues : TRUE, waitUntil |-> "load"]

\* checkLinks called by a program of its own: the command line does not run
Init ==
    /\ opts \in [samePage : BOOLEAN, sameSite : BOOLEAN, offSite : BOOLEAN,
                 fragments : BOOLEAN, concurrency : ConcurrencyValues,
                 waitUntil : WaitUntilValues]
    /\ cliOpts = CliDefaults
    /\ main = "none"
    /\ CliStart
    /\ pc = "suspendedStart"
    /\ cat = 0
    /\ idx = 1
    /\ browser = "none"
    /\ closeCount = 0
    /\ response = "pending"
    /\ raw = NoLists
    /\ links = NoLists
    /\ tasks = [c \in OffPageCategories |-> << >>]
    /\ emitted = << >>
    /\ caller = "idle"
    /\ outcome = "none"
    /\ caughtError = "none"
    /\ faults = 0
    /\ lateOps = 0

(***************************************************************************)
(* The caller: for await (const result of checkLinks(url, options))        *)
(***************************************************************************)
CallNext ==
    /\ caller = "idle"
    /\ pc \in {"suspendedStart", "yield"}
    /\ caller' = "next"
    /\ UNCHANGED <<cliVars, opts, pc, cat, idx, browser, closeCount, response, raw, links,
                   tasks, emitted, outcome, caughtError, faults, lateOps>>

\* break out of the loop (or gen.return()) while the generator is suspended
CallReturn ==
    /\ caller = "idle"
    /\ pc \in {"suspendedStart", "yield"}
    /\ caller' = "return"
    /\ UNCHANGED <<cliVars, opts, pc, cat, idx, browser, closeCount, response, raw, links,
                   tasks, emitted, outcome, caughtError, faults, lateOps>>

(***************************************************************************)
(* checkLinks                                                              *)
(***************************************************************************)
\* const browser = await puppeteer.launch(), outside the try
Launch ==
    /\ pc = "suspendedStart"
    /\ caller = "next"
    /\ \/ /\ browser' = "open"
          /\ pc' = "newPage"
          /\ UNCHANGED <<caller, outcome>>
       \/ /\ pc' = "completed"
          /\ caller' = "idle"
          /\ outcome' = "error"
          /\ UNCHANGED browser
    /\ UNCHANGED <<cliVars, opts, cat, idx, closeCount, response, raw, links, tasks, emitted,
                   caughtError, faults, lateOps>>

\* const page = await browser.newPage()
SeedNewPage ==
    /\ pc = "newPage"
    /\ \/ /\ pc' = "goto"
          /\ UNCHANGED caughtError
       \/ /\ pc' = "finally"
          /\ caughtError' = "newPage"
    /\ UNCHANGED <<cliVars, opts, cat, idx, browser, closeCount, response, raw, links, tasks,
                   emitted, caller, outcome, faults, lateOps>>

\* const response = await page.goto(url.href, opts.puppeteer), and the check of it
SeedGoto ==
    /\ pc = "goto"
    /\ \E r \in GotoResults(opts) :
        /\ response' = r
        /\ IF r = "throw"
           THEN pc' = "finally" /\ caughtError' = "navigation"
           ELSE IF SeedNavigationFailed(r)
           THEN pc' = "finally" /\ caughtError' = "Failed to navigate"
           ELSE pc' = "getAllLinks" /\ UNCHANGED caughtError
    /\ UNCHANGED <<cliVars, opts, cat, idx, browser, closeCount, raw, links, tasks, emitted,
                   caller, outcome, faults, lateOps>>

\* const links = await getAllLinks(page, opts); then the first loop starts
GetAllLinks ==
    /\ pc = "getAllLinks"
    /\ \E sp \in SamePageLists,
          ss \in SeqsUpTo(SameSiteHrefs, MaxRaw),
          os \in OffSiteLists :
        LET r == [samePage |-> IF opts.samePage THEN sp ELSE << >>,
                  sameSite |-> IF opts.sameSite THEN ss ELSE << >>,
                  offSite  |-> IF opts.offSite THEN os ELSE << >>]
        IN /\ raw' = r
           /\ links' = [c \in Categories |-> count(r[c])]
    /\ pc' = "samePage"
    /\ cat' = 1
    /\ idx' = 1
    /\ UNCHANGED <<cliVars, opts, browser, closeCount, response, tasks, emitted, caller,
                   outcome, caughtError, faults, lateOps>>


\* an entry as checkLinks yields it
Entry(type, link, n, output) ==
    [type |-> type, input |-> [link |-> link, count |-> n], output |-> output]

\* the caller's pending next() resolves with a yielded entry
Yield(entry) ==
    /\ emitted' = Append(emitted, entry)
    /\ pc' = "yield"
    /\ caller' = "idle"
    /\ outcome' = "value"

\* checkSamePageLinks up to its next yield
CheckSamePageLinks ==
    /\ pc = "samePage"
    /\ LET m == links.samePage
           rest == {j \in idx..Len(m) : ~(Len(m[j].key) <= 1)}
       IN IF rest = {}
          THEN /\ pc' = "map"
               /\ cat' = cat + 1
               /\ idx' = 1
               /\ UNCHANGED <<emitted, caller, outcome, caughtError>>
          ELSE LET j == CHOOSE j \in rest : \A k \in rest : j <= k
                   fragExists == isFragmentValid(m[j].key, SeedPageIds)
               IN IF fragExists = "rejected"
                  THEN /\ pc' = "finally"
                       /\ caughtError' = "query"
                       /\ UNCHANGED <<cat, idx, emitted, caller, outcome>>
                  ELSE /\ Yield(Entry(Category, m[j].key, m[j].value,
                                      [pageExists |-> TRUE, fragExists |-> (fragExists = "true")]))
                       /\ idx' = j + 1
                       /\ UNCHANGED <<cat, caughtError>>
    /\ UNCHANGED <<cliVars, opts, browser, closeCount, response, raw, links, tasks, faults,
                   lateOps>>

\* an isLinkValid call up to its first await: new URL(link), browser.newPage()
NewTask(link) ==
    [link |-> link, pc |-> "newPage", ctx |-> "none", nav |-> "pending",
     result |-> [pending |-> TRUE]]

\* a checkLinks that starts the validation of both off-page categories at once
StartedByAll(c) == OffPageCategories

\* the categories whose links checkOffPageLinks(links[c], ...) starts to
\* validate: its own
StartedBy(c) == {c}

\* checkOffPageLinks up to its first await: uniqueLinks and resultPromises
StartOffPage ==
    /\ pc = "map"
    /\ tasks' = [c \in OffPageCategories |->
                    IF c \in StartedBy(Category)
                    THEN LET uniqueLinks == MapKeys(links[c])
                         IN [i \in 1..Len(uniqueLinks) |-> NewTask(uniqueLinks[i])]
                    ELSE tasks[c]]
    /\ idx' = 1
    /\ pc' = "await"
    /\ UNCHANGED <<cliVars, opts, cat, browser, closeCount, response, raw, links, emitted,
                   caller, outcome, caughtError, faults, lateOps>>

\* a loop that takes whichever promise has settled first instead of promise i
AwaitedIndexFirstSettled(c) ==
    LET later == {j \in idx..Len(tasks[c]) : Settled(tasks[c][j])}
    IN IF later # {} /\ ~Settled(tasks[c][idx])
       THEN CHOOSE j \in later : \A k \in later : j <= k
       ELSE idx

\* the promise the loop of checkOffPageLinks awaits: resultPromises[i]
AwaitedIndex(c) == idx

\* const result = await resultPromises[i]; yield {...}; and the end of the loop
AwaitResult ==
    /\ pc = "await"
    /\ LET c == Category
           n == Len(tasks[c])
       IN IF idx > n
          THEN /\ IF cat = 3
                  THEN pc' = "finally" /\ UNCHANGED cat
                  ELSE pc' = "map" /\ cat' = cat + 1
               /\ idx' = 1
               /\ UNCHANGED <<emitted, caller, outcome, caughtError>>
          ELSE LET k == AwaitedIndex(c)
                   t == tasks[c][k]
               IN /\ Settled(t)
                  /\ IF t.pc = "rejected"
                     THEN /\ pc' = "finally"
                          /\ caughtError' = t.result.rejected
                          /\ UNCHANGED <<cat, idx, emitted, caller, outcome>>
                     ELSE /\ Yield(Entry(c, t.link, MapGet(links[c], t.link), t.result))
                          /\ idx' = idx + 1
                          /\ UNCHANGED <<cat, caughtError>>
    /\ UNCHANGED <<cliVars, opts, browser, closeCount, response, raw, links, tasks, faults,
                   lateOps>>

\* next() while suspended at a yield: the loop goes on
Resume ==
    /\ pc = "yield"
    /\ caller = "next"
    /\ pc' = IF Category = "samePage" THEN "samePage" ELSE "await"
    /\ UNCHANGED <<cliVars, opts, cat, idx, browser, closeCount, response, raw, links, tasks,
                   emitted, caller, outcome, caughtError, faults, lateOps>>

\* a return() that leaves the generator without running its finally block
OnReturnSkipFinally == "completed"

\* return() at a yield inside the try: the inner generator ends, then the finally runs
OnReturn == "finally"

\* return() while suspended
Return ==
    /\ caller = "return"
    /\ \/ /\ pc = "yield"
          /\ pc' = OnReturn
          /\ UNCHANGED <<caller, outcome>>
       \/ /\ pc = "suspendedStart"
          /\ pc' = "completed"
          /\ caller' = "idle"
          /\ outcome' = "returned"
    /\ UNCHANGED <<cliVars, opts, cat, idx, browser, closeCount, response, raw, links, tasks,
                   emitted, caughtError, faults, lateOps>>

\* finally { await browser.close(); ...: the browser takes its pages with it
BrowserClose ==
    /\ pc = "finally"
    /\ browser' = "closed"
    /\ closeCount' = closeCount + 1
    /\ tasks' = [c \in OffPageCategories |->
                    [i \in 1..Len(tasks[c]) |->
                        IF tasks[c][i].ctx = "open"
                        THEN [tasks[c][i] EXCEPT !.ctx = "destroyed"]
                        ELSE tasks[c][i]]]
    /\ pc' = "closed"
    /\ UNCHANGED <<cliVars, opts, cat, idx, response, raw, links, emitted, caller, outcome,
                   caughtError, faults, lateOps>>

\* ... if (caughtError) throw caughtError; } and the end of the generator
Finish ==
    /\ pc = "closed"
    /\ pc' = "completed"
    /\ caller' = "idle"
    /\ outcome' = IF caughtError # "none" THEN "error"
                  ELSE IF caller = "return" THEN "returned" ELSE "done"
    /\ UNCHANGED <<cliVars, opts, cat, idx, browser, closeCount, response, raw, links, tasks,
                   emitted, caughtError, faults, lateOps>>


(***************************************************************************)
(* isLinkValid, one call per unique link of an off-page category           *)
(***************************************************************************)
SetTask(c, i, t) == tasks' = [tasks EXCEPT ![c][i] = t]

\* a page operation started when the browser is already closed
Late == IF browser = "closed" THEN 1 ELSE 0

\* the promise of isLinkValid settles: with the returned value, or rejected
Settle(t) ==
    [t EXCEPT !.pc = IF "rejected" \in DOMAIN t.result THEN "rejected" ELSE "fulfilled"]

\* an isLinkValid without the catch block: the navigation error leaves the function
OnNavigationThrowUncaught == [rejected |-> "navigation"]

\* a catch block that reports the page as missing next to the error
OnNavigationThrowWithPageExists == [error |-> "navigation", pageExists |-> FALSE]

\* catch (error) { return { error }; }
OnNavigationThrow == [error |-> "navigation"]

\* a page.close() at the end of the try block instead of in a finally block
AfterCatchNoFinally == "fulfilled"

\* where isLinkValid goes after its catch block: finally { await page.close(); }
AfterCatch == "close"

\* const page = await browser.newPage(); then page.goto is called
TaskNewPage(c, i) ==
    LET t == tasks[c][i]
    IN /\ t.pc = "newPage"
       /\ \/ /\ browser = "open"
             /\ SetTask(c, i, [t EXCEPT !.pc = "goto", !.ctx = "open"])
             /\ UNCHANGED faults
          \/ /\ browser = "open"
             /\ faults < MaxFaults
             /\ SetTask(c, i, Settle([t EXCEPT !.result = [rejected |-> "newPage"]]))
             /\ faults' = faults + 1
          \/ /\ browser = "closed"
             /\ SetTask(c, i, Settle([t EXCEPT !.result = [rejected |-> "newPage"]]))
             /\ UNCHANGED faults
       /\ UNCHANGED <<cliVars, opts, pc, cat, idx, browser, closeCount, response, raw, links,
                      emitted, caller, outcome, caughtError, lateOps>>

\* const response = await page.goto(link, options.puppeteer) and what follows it
\* up to the next await
TaskGoto(c, i) ==
    LET t == tasks[c][i]
    IN /\ t.pc = "goto"
       /\ \E r \in GotoResults(opts) :
            /\ browser = "closed" => r = "throw"
            /\ IF r = "throw"
               THEN SetTask(c, i, [t EXCEPT !.nav = r, !.result = OnNavigationThrow,
                                            !.pc = AfterCatch])
               ELSE IF ShouldCheckFragment(opts.fragments, PageExists(r), UrlHash(t.link))
               THEN SetTask(c, i, [t EXCEPT !.nav = r, !.pc = "frag"])
               ELSE SetTask(c, i, [t EXCEPT !.nav = r, !.pc = "close",
                                            !.result = [pageExists |-> PageExists(r)]])
       /\ lateOps' = lateOps + Late
       /\ UNCHANGED <<cliVars, opts, pc, cat, idx, browser, closeCount, response, raw, links,
                      emitted, caller, outcome, caughtError, faults>>

\* fragExists = await isFragmentValid(url.hash, page); a rejection lands in the
\* catch block of isLinkValid
TaskFragment(c, i) ==
    LET t == tasks[c][i]
    IN /\ t.pc = "frag"
       /\ \E ids \in LinkedPageIds :
            LET fragExists == IF browser = "closed" THEN "rejected"
                              ELSE isFragmentValid(UrlHash(t.link), ids)
            IN IF fragExists = "rejected"
               THEN SetTask(c, i, [t EXCEPT !.result = [error |-> "query"],
                                            !.pc = AfterCatch])
               ELSE SetTask(c, i, [t EXCEPT !.pc = "close",
                                            !.result = [pageExists |-> PageExists(t.nav),
                                                        fragExists |-> (fragExists = "true")]])
       /\ lateOps' = lateOps + Late
       /\ UNCHANGED <<cliVars, opts, pc, cat, idx, browser, closeCount, response, raw, links,
                      emitted, caller, outcome, caughtError, faults>>

\* finally { await page.close(); }: a rejection of close replaces the result
TaskClose(c, i) ==
    LET t == tasks[c][i]
    IN /\ t.pc = "close"
       /\ \/ /\ t.ctx = "open"
             /\ SetTask(c, i, Settle([t EXCEPT !.ctx = "closed"]))
             /\ UNCHANGED faults
          \/ /\ t.ctx = "open"
             /\ faults < MaxFaults
             /\ SetTask(c, i, Settle([t EXCEPT !.result = [rejected |-> "close"]]))
             /\ faults' = faults + 1
          \/ /\ t.ctx = "destroyed"
             /\ SetTask(c, i, Settle([t EXCEPT !.result = [rejected |-> "close"]]))
             /\ UNCHANGED faults
       /\ UNCHANGED <<cliVars, opts, pc, cat, idx, browser, closeCount, response, raw, links,
                      emitted, caller, outcome, caughtError, lateOps>>

\* each step of each isLinkValid call runs on its own
NewPageStep ==
    \E c \in OffPageCategories : \E i \in 1..Len(tasks[c]) : TaskNewPage(c, i)

GotoStep ==
    \E c \in OffPageCategories : \E i \in 1..Len(tasks[c]) : TaskGoto(c, i)

FragmentStep ==
    \E c \in OffPageCategories : \E i \in 1..Len(tasks[c]) : TaskFragment(c, i)

CloseStep ==
    \E c \in OffPageCategories : \E i \in 1..Len(tasks[c]) : TaskClose(c, i)

Next ==
    \/ CallNext
    \/ CallReturn
    \/ Launch
    \/ SeedNewPage
    \/ SeedGoto
    \/ GetAllLinks
    \/ CheckSamePageLinks
    \/ StartOffPage
    \/ AwaitResult
    \/ Resume
    \/ Return
    \/ BrowserClose
    \/ Finish
    \/ NewPageStep
    \/ GotoStep
    \/ FragmentStep
    \/ CloseStep

Spec == Init /\ [][Next]_vars

\* the steps of a run whose caller keeps consuming: no return()
Consuming ==
    \/ CallNext
    \/ Launch
    \/ SeedNewPage
    \/ SeedGoto
    \/ GetAllLinks
    \/ CheckSamePageLinks
    \/ StartOffPage
    \/ AwaitResult
    \/ Resume
    \/ BrowserClose
    \/ Finish
    \/ NewPageStep
    \/ GotoStep
    \/ FragmentStep
    \/ CloseStep

\* every call into puppeteer settles, every continuation of a settled promise
\* runs, and the caller asks for the next entry whenever it has got one
LiveSpec ==
    /\ Init
    /\ [][Consuming]_vars
    /\ WF_vars(Consuming)
    /\ WF_vars(CallNext)
    /\ WF_vars(AwaitResult)
    /\ WF_vars(NewPageStep)
    /\ WF_vars(GotoStep)
    /\ WF_vars(FragmentStep)
    /\ WF_vars(CloseStep)
    /\ WF_vars(BrowserClose)
    /\ WF_vars(Finish)


(***************************************************************************)
(* cli.ts: main, which runs checkLinks and classifies every entry.  Here   *)
(* checkLinks is the environment: at each turn of the loop it hands over   *)
(* an entry, ends, or throws.                                              *)
(***************************************************************************)
\* the four options with a policy, under the names main's LinkType gives them
LinkTypes == {"samePage", "sameSite", "offSite", "fragments"}

\* what such an option may hold: false (--no-same-page), "err", "warn", or
\* something else (--same-page=yes)
PolicyValues == {"false", "err", "warn", "yes"}

\* [false, "err", "warn"].includes(opts[type])
ValidPolicy(v) == v \in {"false", "err", "warn"}

\* const options: Options = {...}
BuildOptions(o) ==
    [samePage |-> o.samePage # "false", sameSite |-> o.sameSite # "false",
     offSite |-> o.offSite # "false", fragments |-> o.fragments # "false",
     concurrency |-> o.concurrency, waitUntil |-> o.waitUntil]

\* errorIf and warnIf as main fills them
OutputOptions(o) ==
    [errorIf |-> {t \in LinkTypes : o[t] = "err"},
     warnIf  |-> {t \in LinkTypes : o[t] = "warn"}]

\* !pageExists: true also when the outcome has no pageExists
NotPageExists(output) == "pageExists" \notin DOMAIN output \/ ~output.pageExists

\* fragExists === false
FragExistsIsFalse(output) == "fragExists" \in DOMAIN output /\ ~output.fragExists

\* a classification that looks at the warnings before the failures
getResultTypeWarnFirst(entry, options) ==
    LET output == entry.output
    IN IF "error" \in DOMAIN output THEN "err"
       ELSE IF \/ NotPageExists(output) /\ entry.type \in options.warnIf
               \/ FragExistsIsFalse(output) /\ "fragments" \in options.warnIf
       THEN "warn"
       ELSE IF \/ NotPageExists(output) /\ entry.type \in options.errorIf
               \/ FragExistsIsFalse(output) /\ "fragments" \in options.errorIf
       THEN "fail"
       ELSE "ok"

getResultType(entry, options) ==
    LET output == entry.output
    IN IF "error" \in DOMAIN output THEN "err"
       ELSE IF \/ NotPageExists(output) /\ entry.type \in options.errorIf
               \/ FragExistsIsFalse(output) /\ "fragments" \in options.errorIf
       THEN "fail"
       ELSE IF \/ NotPageExists(output) /\ entry.type \in options.warnIf
               \/ FragExistsIsFalse(output) /\ "fragments" \in options.warnIf
       THEN "warn"
       ELSE "ok"

\* if (resultType === ResultType.fail) hasFailures = true
CountsAsFailure(type) == type = "fail"

\* the outcomes an entry may have: { error } or { pageExists, fragExists? }
Outcomes ==
    {[error |-> "navigation"]}
        \cup {[pageExists |-> p] : p \in BOOLEAN}
        \cup {[pageExists |-> p, fragExists |-> f] : p \in BOOLEAN, f \in BOOLEAN}

\* the entries checkLinks may hand over under the given options
Entries(options) ==
    UNION {{Entry(c, l, 1, o) : l \in Hrefs(c) \ {<< >>}, o \in Outcomes} :
              c \in {t \in Categories : options[t]}}

\* the defaults of checkLinks
defaults ==
    [samePage |-> TRUE, sameSite |-> TRUE, offSite |-> TRUE, fragments |-> TRUE,
     waitUntil |-> "load"]

CliInit ==
    /\ cliOpts \in [samePage : PolicyValues, sameSite : PolicyValues,
                    offSite : PolicyValues, fragments : PolicyValues,
                    concurrency : ConcurrencyValues, waitUntil : WaitUntilValues]
    /\ main = "start"
    /\ CliStart
    /\ opts = defaults
    /\ pc = "suspendedStart"
    /\ cat = 0
    /\ idx = 1
    /\ browser = "none"
    /\ closeCount = 0
    /\ response = "pending"
    /\ raw = NoLists
    /\ links = NoLists
    /\ tasks = [c \in OffPageCategories |-> << >>]
    /\ emitted = << >>
    /\ caller = "idle"
    /\ outcome = "none"
    /\ caughtError = "none"
    /\ faults = 0
    /\ lateOps = 0

\* action: catch (error) { console.error(error.message); process.exit(1); }
Exit(message) ==
    /\ thrown' = message
    /\ exitCode' = IF message = "none" THEN "0" ELSE "1"
    /\ main' = "exited"

\* main up to its loop: the check of the four options, options, errorIf, warnIf
MainOptions ==
    /\ main = "start"
    /\ IF \E type \in LinkTypes : ~ValidPolicy(cliOpts[type])
       THEN Exit("Invalid value") /\ UNCHANGED opts
       ELSE /\ opts' = BuildOptions(cliOpts)
            /\ main' = "loop"
            /\ UNCHANGED <<thrown, exitCode>>
    /\ UNCHANGED <<cliOpts, result, resultType, hasFailures, seen, genVars>>

\* one turn of for await (const result of checkLinks(url, options))
MainResult ==
    /\ main = "loop"
    /\ ValidWaitUntil(opts.waitUntil)
    /\ \E entry \in Entries(opts) :
        LET type == getResultType(entry, OutputOptions(cliOpts))
        IN /\ result' = entry
           /\ resultType' = type
           /\ hasFailures' = (hasFailures \/ CountsAsFailure(type))
           /\ seen' = seen \cup {type}
    /\ UNCHANGED <<cliOpts, main, thrown, exitCode, opts, genVars>>

\* checkLinks is exhausted: if (hasFailures) throw new Error("Broken links found.")
MainEnd ==
    /\ main = "loop"
    /\ ValidWaitUntil(opts.waitUntil)
    /\ Exit(IF hasFailures THEN "Broken links found." ELSE "none")
    /\ UNCHANGED <<cliOpts, result, resultType, hasFailures, seen, opts, genVars>>

\* checkLinks throws: main has no catch, the error goes to the action
MainThrows ==
    /\ main = "loop"
    /\ Exit("checkLinks")
    /\ UNCHANGED <<cliOpts, result, resultType, hasFailures, seen, opts, genVars>>

CliNext ==
    \/ MainOptions
    \/ MainResult
    \/ MainEnd
    \/ MainThrows

CliSpec == CliInit /\ [][CliNext]_vars


(***************************************************************************)
(* Vocabulary of the properties                                            *)
(***************************************************************************)
EmittedOf(c) == SelectSeq(emitted, LAMBDA e : e.type = c)

LinksOf(entries) == [i \in 1..Len(entries) |-> entries[i].input.link]

IsPrefix(a, b) == Len(a) <= Len(b) /\ \A i \in 1..Len(a) : a[i] = b[i]

Occurrences(s, x) == Cardinality({i \in 1..Len(s) : s[i] = x})

\* the distinct elements of s in the order of their first occurrence
FirstOccurrences(s) ==
    LET firsts == {i \in 1..Len(s) : \A j \in 1..(i - 1) : s[j] # s[i]}
        before(i) == Cardinality({j \in firsts : j < i})
    IN [k \in 1..Cardinality(firsts) |->
            s[CHOOSE i \in firsts : before(i) = k - 1]]

Rank(type) == CASE type = "samePage" -> 1 [] type = "sameSite" -> 2 [] type = "offSite" -> 3

TaskIds == {<<c, i>> \in OffPageCategories \X (1..MaxRaw) : i <= Len(tasks[c])}

\* the pages of validation tasks that are open
OpenPages == {id \in TaskIds : tasks[id[1]][id[2]].ctx = "open"}

TasksFor(c, l) == {i \in 1..Len(tasks[c]) : tasks[c][i].link = l}

Ended == outcome \in {"done", "returned", "error"}

\* C1: within an off-page category the entries come in the first-occurrence
\* order of the unique targets of the raw list, whatever order the validation
\* tasks complete in: what is emitted is always a prefix of that order, and all
\* of it once the sequence is exhausted.
C1_FirstOccurrenceOrder ==
    \A c \in OffPageCategories :
        /\ IsPrefix(LinksOf(EmittedOf(c)), FirstOccurrences(raw[c]))
        /\ outcome = "done" => LinksOf(EmittedOf(c)) = FirstOccurrences(raw[c])

\* the second target's validation has completed, the first's has not, and the
\* loop holds the second entry back
C1_Witness ==
    \E c \in OffPageCategories :
        /\ pc = "await" /\ idx = 1 /\ CategoryOrder[cat] = c
        /\ Len(tasks[c]) = 2
        /\ tasks[c][2].pc = "fulfilled"
        /\ ~Settled(tasks[c][1])
        /\ EmittedOf(c) = << >>

\* C2: across categories the entries come same-page first, then same-site,
\* then off-site: no entry is followed by an entry of an earlier category.
C2_CategoryOrder ==
    \A i, j \in 1..Len(emitted) :
        i < j => Rank(emitted[i].type) <= Rank(emitted[j].type)

C2_Witness ==
    /\ outcome = "done"
    /\ \A c \in Categories : EmittedOf(c) # << >>

\* C3: a target that occurs N times in a category's raw list gets at most one
\* page, one navigation and one entry, the entry's count is N, and when the
\* sequence is exhausted it has exactly one of each.
C3_ValidatedOnce ==
    \A c \in Categories : \A l \in Hrefs(c) :
        LET n == Occurrences(raw[c], l)
            es == {k \in 1..Len(emitted) :
                      emitted[k].type = c /\ emitted[k].input.link = l}
        IN /\ Cardinality(es) <= 1
           /\ \A k \in es : emitted[k].input.count = n
           /\ c \in OffPageCategories =>
                /\ Cardinality({i \in TasksFor(c, l) : tasks[c][i].ctx # "none"}) <= 1
                /\ Cardinality({i \in TasksFor(c, l) : tasks[c][i].nav # "pending"}) <= 1
                /\ (outcome = "done" /\ n > 0) =>
                      /\ Cardinality(es) = 1
                      /\ Cardinality({i \in TasksFor(c, l) : tasks[c][i].ctx # "none"}) = 1
                      /\ Cardinality({i \in TasksFor(c, l) : tasks[c][i].nav # "pending"}) = 1

C3_Witness ==
    /\ outcome = "done"
    /\ \E k \in 1..Len(emitted) :
          /\ emitted[k].type = "sameSite"
          /\ emitted[k].input.count = 2
          /\ raw.sameSite = <<emitted[k].input.link, emitted[k].input.link>>


\* C4 as stated: no entry of an off-page category is emitted before every
\* validation task of that category has finished.
C4_BatchThenEmit ==
    \A c \in OffPageCategories :
        EmittedOf(c) # << >> => \A i \in 1..Len(tasks[c]) : Settled(tasks[c][i])

\* C4 as amended: the k-th entry of an off-page category is emitted only after
\* the validation tasks of the first k targets have finished (later ones may
\* still run), so only the last entry waits for every task of the category.
C4_EmitInOrderOfAwait ==
    \A c \in OffPageCategories :
        /\ Len(EmittedOf(c)) <= Len(tasks[c])
        /\ \A k \in 1..Len(EmittedOf(c)) :
              /\ tasks[c][k].pc = "fulfilled"
              /\ EmittedOf(c)[k].output = tasks[c][k].result
        /\ (tasks[c] # << >> /\ Len(EmittedOf(c)) = Len(tasks[c])) =>
              \A i \in 1..Len(tasks[c]) : Settled(tasks[c][i])

\* the first entry of a category is out while the second target is still navigating
C4_Witness ==
    \E c \in OffPageCategories :
        /\ Len(tasks[c]) = 2
        /\ Len(EmittedOf(c)) = 1
        /\ tasks[c][2].pc = "goto"
        /\ browser = "open"

\* C5: no more than opts.concurrency pages of validation tasks are open at once.
C5_ConcurrencyBound == Cardinality(OpenPages) <= opts.concurrency

SeedFailed == response \in {"notok", "null", "throw"}

\* C6: when the seed navigation fails nothing is extracted, no task is started,
\* no entry is emitted, and the caller gets the error only after the browser
\* has been closed.
C6_SeedFailureIsFatal ==
    SeedFailed =>
        /\ emitted = << >>
        /\ cat = 0 /\ raw = NoLists /\ links = NoLists
        /\ \A c \in OffPageCategories : tasks[c] = << >>
        /\ pc \in {"finally", "closed", "completed"}
        /\ caughtError # "none"
        /\ Ended => (outcome = "error" /\ browser = "closed" /\ closeCount = 1)

C6_Witness == SeedFailed /\ outcome = "error" /\ browser = "closed"

\* C7: a run that launched the browser closes it exactly once: never twice, and
\* once by the time the caller gets done, the answer to return(), or the error.
C7_BrowserClosedOnce ==
    /\ closeCount <= 1
    /\ (browser = "closed") = (closeCount = 1)
    /\ (browser # "none" /\ (Ended \/ pc = "completed")) => closeCount = 1

\* the caller left the loop at a yield and got control back
C7_Witness == outcome = "returned" /\ emitted # << >> /\ closeCount = 1

\* C8: when the browser is closed no page of a validation task is still open,
\* no task starts a page operation afterwards, and the caller gets control
\* back only after the browser is closed.
C8_DrainBeforeClose ==
    /\ \A id \in TaskIds : tasks[id[1]][id[2]].ctx # "destroyed"
    /\ lateOps = 0
    /\ (Ended /\ browser # "none") => browser = "closed"

\* C9: a validation task whose promise fulfils, with whatever outcome, has
\* closed the page it opened, and after a run consumed to the end every page
\* opened by a task has been closed by it.
C9_PageClosedByTask ==
    /\ \A id \in TaskIds :
          LET t == tasks[id[1]][id[2]]
          IN /\ t.pc = "fulfilled" => t.ctx = "closed"
             /\ t.ctx = "closed" => t.pc = "fulfilled"
    /\ outcome = "done" =>
          \A id \in TaskIds : tasks[id[1]][id[2]].ctx = "closed"

\* a run consumed to the end with a navigation that threw and a fragment query that failed
C9_Witness ==
    /\ outcome = "done"
    /\ \E i, j \in 1..Len(tasks.sameSite) :
          /\ tasks.sameSite[i].nav = "throw"
          /\ tasks.sameSite[j].result = [error |-> "query"]
          /\ tasks.sameSite[i].ctx = "closed" /\ tasks.sameSite[j].ctx = "closed"

\* C10: a navigation that throws is contained in its own task: the task's
\* promise still fulfils, with {error}; the generator never fails with a link's
\* navigation error; every entry's outcome is the one its own navigation gives;
\* and a run consumed to the end has an entry for every unique target.
C10_NavigationThrowContained ==
    /\ \A id \in TaskIds :
          LET t == tasks[id[1]][id[2]]
          IN (t.nav = "throw" /\ Settled(t)) =>
                \/ t.pc = "fulfilled" /\ t.result = [error |-> "navigation"]
                \/ t.pc = "rejected" /\ t.result = [rejected |-> "close"]
    /\ caughtError = "navigation" => response = "throw"
    /\ \A c \in OffPageCategories : \A k \in 1..Len(EmittedOf(c)) :
          LET e == EmittedOf(c)[k]
              nav == tasks[c][k].nav
          IN /\ e.input.link = tasks[c][k].link
             /\ nav = "throw" => e.output = [error |-> "navigation"]
             /\ nav = "notok" => e.output = [pageExists |-> FALSE]
             /\ nav \in {"ok", "null"} =>
                   \/ "pageExists" \in DOMAIN e.output /\ e.output.pageExists
                   \/ e.output = [error |-> "query"]
    /\ outcome = "done" =>
          \A c \in OffPageCategories :
              Len(EmittedOf(c)) = Cardinality({raw[c][i] : i \in 1..Len(raw[c])})

\* one target's navigation threw, its sibling's entries are there and classified
C10_Witness ==
    /\ outcome = "done"
    /\ Len(EmittedOf("sameSite")) = 2
    /\ \E i, j \in 1..2 :
          /\ EmittedOf("sameSite")[i].output = [error |-> "navigation"]
          /\ EmittedOf("sameSite")[j].output = [pageExists |-> FALSE]

\* the links were extracted: what fails from here on is a failure of one link
LinksExtracted == cat >= 1

\* C11: only a failure of the seed (or of the launch before it) ends the
\* sequence with an error: once the links are extracted the generator never
\* throws, every failure of a link is data in that link's entry.
C11_OnlySeedFailureTerminates ==
    LinksExtracted => (caughtError = "none" /\ outcome # "error")

\* C12: the same-page validator never lets a query failure escape: checkLinks
\* never fails with the error of a fragment query, and every same-page token
\* that was queried has its entry.
C12_SamePageQueryNeverEscapes ==
    /\ caughtError # "query"
    /\ (cat = 1 /\ pc \in {"finally", "closed", "completed"} /\ outcome # "returned"
          /\ caller # "return") =>
          \A i \in 1..Len(links.samePage) :
              Len(links.samePage[i].key) > 1 =>
                  \E k \in 1..Len(emitted) :
                      /\ emitted[k].type = "samePage"
                      /\ emitted[k].input.link = links.samePage[i].key

\* C13: an off-page task whose page exists and whose fragment query failed
\* fulfils with {pageExists: true, fragExists: false}, never with {error}.
C13_OffPageQueryFailureSwallowed ==
    \A id \in TaskIds :
        LET t == tasks[id[1]][id[2]]
        IN /\ t.result # [error |-> "query"]
           /\ (t.pc = "fulfilled" /\ t.nav \in {"ok", "null"}) =>
                 ("pageExists" \in DOMAIN t.result /\ t.result.pageExists)

\* the fragment of an entry's target: the token itself on the same page, the
\* hash of the URL elsewhere
TargetFragment(e) ==
    IF e.type = "samePage" THEN e.input.link ELSE UrlHash(e.input.link)

\* C14 as stated: an entry of any category has fragExists only if its target
\* has a non-empty fragment, options.fragments is set and pageExists is true.
C14_FragExistsOnlyWhenEnabled ==
    \A k \in 1..Len(emitted) :
        LET e == emitted[k]
        IN "fragExists" \in DOMAIN e.output =>
              /\ Len(TargetFragment(e)) > 1
              /\ opts.fragments
              /\ e.output.pageExists

\* C14 as amended: options.fragments governs the links outside the current page
\* only.  An off-page entry has fragExists only if its target has a non-empty
\* fragment, options.fragments is set and pageExists is true; a same-page entry
\* always has fragExists, with a non-empty token and pageExists true, whatever
\* options.fragments is.
C14_FragExistsOnlyWhenEnabledOffPage ==
    \A k \in 1..Len(emitted) :
        LET e == emitted[k]
        IN /\ "fragExists" \in DOMAIN e.output =>
                 /\ Len(TargetFragment(e)) > 1
                 /\ e.type \in OffPageCategories => opts.fragments
                 /\ e.output.pageExists
           /\ e.type = "samePage" => "fragExists" \in DOMAIN e.output

\* fragments are off: a same-page entry has fragExists, and the entry of an
\* off-page target with a fragment, on a page that exists, has none
C14_Witness ==
    /\ ~opts.fragments
    /\ \E i, j \in 1..Len(emitted) :
          /\ emitted[i].type = "samePage"
          /\ "fragExists" \in DOMAIN emitted[i].output
          /\ emitted[j].type = "sameSite"
          /\ Len(UrlHash(emitted[j].input.link)) > 1
          /\ emitted[j].output = [pageExists |-> TRUE]

\* C15: an entry's outcome is an error outcome or a success outcome, never
\* both: with error there is no pageExists and no fragExists, and without
\* error there is pageExists.
C15_ErrorExcludesSuccess ==
    \A k \in 1..Len(emitted) :
        LET output == emitted[k].output
        IN IF "error" \in DOMAIN output
           THEN DOMAIN output = {"error"}
           ELSE "pageExists" \in DOMAIN output

\* a run with an entry whose fragment query failed next to one that succeeded
C15_Witness ==
    \E i, j \in 1..Len(emitted) :
        /\ emitted[i].output = [error |-> "query"]
        /\ emitted[j].type = emitted[i].type
        /\ "pageExists" \in DOMAIN emitted[j].output

\* the distinct non-empty fragment tokens of a raw same-page list
NonEmptyTokens(s) == SelectSeq(FirstOccurrences(s), LAMBDA l : Len(l) > 1)

\* the loop over the same-page links is over: left behind, or ended by an error
SamePageLoopOver == cat >= 2 \/ (cat = 1 /\ outcome = "error")

\* C16: once the same-page loop is over there is exactly one same-page entry
\* per distinct non-empty token of the raw list, in order, with the token's
\* number of occurrences as count and fragExists true exactly when the seed
\* page has an element for the token, false otherwise.
C16_OneEntryPerToken ==
    SamePageLoopOver =>
        LET tokens == NonEmptyTokens(raw.samePage)
        IN EmittedOf("samePage") =
              [k \in 1..Len(tokens) |->
                  Entry("samePage", tokens[k], Occurrences(raw.samePage, tokens[k]),
                        [pageExists |-> TRUE,
                         fragExists |-> \E id \in SeedPageIds :
                                            StripHash(tokens[k]) = <<id>>])]

\* C17: the outcome of an off-page task follows from what its navigation gave:
\* an ok response or no response gives pageExists = true, a response that is
\* not ok gives pageExists = false, a throw gives exactly {error}.
C17_ClassifiedFromNavigation ==
    \A id \in TaskIds :
        LET t == tasks[id[1]][id[2]]
        IN t.pc = "fulfilled" =>
              /\ t.nav \in {"ok", "null"} =>
                    ("pageExists" \in DOMAIN t.result /\ t.result.pageExists)
              /\ t.nav = "notok" =>
                    ("pageExists" \in DOMAIN t.result /\ ~t.result.pageExists)
              /\ t.nav = "throw" => DOMAIN t.result = {"error"}

\* C18: the entry of an off-page target whose navigation completed with a
\* response records the response's status code; so does every entry with
\* pageExists = false.
C18_StatusRecorded ==
    \A c \in OffPageCategories : \A k \in 1..Len(EmittedOf(c)) :
        LET output == EmittedOf(c)[k].output
        IN /\ tasks[c][k].nav \in {"ok", "notok"} => "status" \in DOMAIN output
           /\ ("pageExists" \in DOMAIN output /\ ~output.pageExists) =>
                 "status" \in DOMAIN output

\* the severity of an outcome by the ordered rules, from the policy of the
\* entry's category and the policy of fragments
Severity(output, categoryPolicy, fragmentsPolicy) ==
    IF "error" \in DOMAIN output THEN "err"
    ELSE IF ~output.pageExists /\ categoryPolicy = "err" THEN "fail"
    ELSE IF FragExistsIsFalse(output) /\ fragmentsPolicy = "err" THEN "fail"
    ELSE IF ~output.pageExists /\ categoryPolicy = "warn" THEN "warn"
    ELSE IF FragExistsIsFalse(output) /\ fragmentsPolicy = "warn" THEN "warn"
    ELSE "ok"

\* C19: the ResultType main gets for an entry is the severity the ordered rules
\* give (error first, then the two failures, page before fragment, then the two
\* warnings, then ok); and under the run's policies getResultType gives that
\* severity for every outcome in every category, a disabled one included.
C19_SeverityByOrderedRules ==
    /\ result.type # "none" =>
          resultType = Severity(result.output, cliOpts[result.type], cliOpts.fragments)
    /\ \A entry \in Entries(defaults) :
          getResultType(entry, OutputOptions(cliOpts)) =
              Severity(entry.output, cliOpts[entry.type], cliOpts.fragments)

\* the page is missing under a category policy of warn, the fragment under a
\* fragments policy of err: the entry is a failure, not a warning
C19_Witness ==
    /\ result.type # "none"
    /\ result.output = [pageExists |-> FALSE, fragExists |-> FALSE]
    /\ cliOpts[result.type] = "warn"
    /\ cliOpts.fragments = "err"
    /\ resultType = "fail"

\* C20: a run of the command line that got through checkLinks ends with the
\* failure signal (main throws, exit code 1) exactly when some entry was
\* classified fail or err.
C20_FailureSignal ==
    (main = "exited" /\ thrown \notin {"Invalid value", "checkLinks"}) =>
        ((exitCode = "1") <=> (seen \cap {"fail", "err"} # {}))

\* C21: a configuration that is not valid is rejected before the run starts:
\* with a waitUntil that is none of the events the browser is never launched.
C21_InvalidOptionsRejectedBeforeLaunch ==
    ~ValidWaitUntil(opts.waitUntil) => browser = "none"

RECURSIVE SumValues(_)
SumValues(m) == IF m = << >> THEN 0 ELSE Head(m).value + SumValues(Tail(m))

\* C22: for each raw list, the counts of the map count returns sum to the
\* length of the list, and the map has one key per distinct element of the
\* list: no key twice, as many keys as distinct elements.
C22_CountSumsAndKeys ==
    \A c \in Categories :
        /\ SumValues(links[c]) = Len(raw[c])
        /\ Len(links[c]) = Cardinality({raw[c][i] : i \in 1..Len(raw[c])})
        /\ \A i, j \in 1..Len(links[c]) :
              links[c][i].key = links[c][j].key => i = j

\* a list of three with one repetition: two keys, counts that sum to three
C22_Witness ==
    /\ Len(raw.samePage) = 3
    /\ raw.samePage[1] = << >>
    /\ Len(links.samePage) = 2
    /\ SumValues(links.samePage) = 3

\* C23: the keys of the map count returns are in the order in which each
\* distinct element first occurs in the list.
C23_KeysInFirstOccurrenceOrder ==
    \A c \in Categories : MapKeys(links[c]) = FirstOccurrences(raw[c])

\* an element that comes back after another one keeps its first place
C23_Witness ==
    /\ raw.samePage = << <<"#", "a">>, <<"#", "b">>, <<"#", "a">> >>
    /\ MapKeys(links.samePage) = << <<"#", "a">>, <<"#", "b">> >>

\* the sequence has ended for a caller that kept consuming, past the seed page
ConsumedToTheEnd == outcome \in {"done", "error"} /\ LinksExtracted

\* the targets of a category that are to get an entry
Targets(c) ==
    IF c = "samePage" THEN NonEmptyTokens(raw[c]) ELSE FirstOccurrences(raw[c])

\* C24: for a caller that keeps consuming no target starves: when the sequence
\* has ended, every unique target of every category has had its entry.
C24_EveryTargetGetsItsEntry ==
    ConsumedToTheEnd => \A c \in Categories : LinksOf(EmittedOf(c)) = Targets(c)

\* the rest of C24, under LiveSpec: the sequence ends and the browser does not
\* stay open
C24_EndsAndCloses == <>[](pc = "completed" /\ browser # "open" /\ caller = "idle")

\* C25: the empty fragment is never validated: no same-page entry has an empty
\* token ("" or "#"), and the task of an off-page URL whose fragment is empty
\* never gets to a fragment query and has no fragExists in its outcome, nor
\* has its entry.
C25_EmptyFragmentNeverValidated ==
    /\ \A k \in 1..Len(emitted) :
          emitted[k].type = "samePage" => Len(emitted[k].input.link) > 1
    /\ \A id \in TaskIds :
          LET t == tasks[id[1]][id[2]]
          IN Len(UrlHash(t.link)) <= 1 =>
                /\ t.pc # "frag"
                /\ "fragExists" \notin DOMAIN t.result
                /\ t.result # [error |-> "query"]
    /\ \A k \in 1..Len(emitted) :
          (emitted[k].type \in OffPageCategories
              /\ Len(UrlHash(emitted[k].input.link)) <= 1) =>
                 "fragExists" \notin DOMAIN emitted[k].output

\* fragments are checked, the seed page has an anchor with href="#" and an
\* off-site link that ends in "#": the run ends with one same-page entry and
\* the off-site page found, without fragExists
C25_Witness ==
    /\ outcome = "done"
    /\ opts.fragments
    /\ raw.samePage # << >> /\ raw.samePage[1] = << >>
    /\ Len(EmittedOf("samePage")) = 1
    /\ \E k \in 1..Len(emitted) :
          /\ emitted[k].type = "offSite"
          /\ emitted[k].input.link = <<"https://e/q", "#">>
          /\ emitted[k].output = [pageExists |-> TRUE]

\* C26: the validation of a category starts only after the caller has consumed
\* the last entry of the category before it.  No task (page, navigation) of a
\* category exists while checkLinks is in an earlier loop, also not after the
\* caller has stopped there; the entry the caller holds at a yield is of the
\* running category; and when the tasks of a category exist, every entry of
\* the category before it has been emitted.
C26_CategoryStartsAfterPrevious ==
    /\ \A c \in OffPageCategories : Rank(c) > cat => tasks[c] = << >>
    /\ pc = "yield" => (emitted # << >> /\ emitted[Len(emitted)].type = Category)
    /\ tasks.sameSite # << >> =>
          LinksOf(EmittedOf("samePage")) = NonEmptyTokens(raw.samePage)
    /\ tasks.offSite # << >> =>
          /\ LinksOf(EmittedOf("sameSite")) = FirstOccurrences(raw.sameSite)
          /\ \A i \in 1..Len(tasks.sameSite) : Settled(tasks.sameSite[i])

\* the caller stopped at the last same-page entry: the same-site links of the
\* seed page were never validated
C26_Witness ==
    /\ outcome = "returned"
    /\ cat = 1
    /\ emitted # << >>
    /\ LinksOf(EmittedOf("samePage")) = NonEmptyTokens(raw.samePage)
    /\ raw.sameSite # << >>
    /\ tasks.sameSite = << >>

\* C27: a seed navigation that gives no response, or one that is not ok, ends
\* checkLinks with the 'Failed to navigate' error and without entries; an
\* off-page navigation that gives no response is reported as pageExists = true.
C27_NoResponseSeedFatalLinkExists ==
    /\ response \in {"null", "notok"} =>
          /\ caughtError = "Failed to navigate"
          /\ emitted = << >>
          /\ Ended => outcome = "error"
    /\ \A id \in TaskIds :
          LET t == tasks[id[1]][id[2]]
          IN (t.nav = "null" /\ t.pc = "fulfilled") =>
                ("pageExists" \in DOMAIN t.result /\ t.result.pageExists)

\* C28: a disabled category has no links, no entries and no tasks, and what is
\* emitted for a category does not depend on the other categories being
\* enabled: in a run consumed to the end that did not end in the loop of the
\* category itself, the category has the entries of all its targets, as it
\* has when the others are disabled.
C28_DisabledCategoryFrame ==
    /\ \A c \in Categories :
          ~opts[c] =>
              /\ raw[c] = << >>
              /\ EmittedOf(c) = << >>
              /\ c \in OffPageCategories => tasks[c] = << >>
    /\ \A c \in Categories :
          (ConsumedToTheEnd /\ cat # Rank(c)) => LinksOf(EmittedOf(c)) = Targets(c)

====
